---- MODULE Spec2Model ----
(***************************************************************************)
(* Model of scripts/remove_keywords_from_package_json.py.                  *)
(*                                                                         *)
(* Two entry points are modelled, each with its own specification:         *)
(*   SpecMain  - the script run from the command line (main).              *)
(*   Spec      - remove_support_lifecycle_keywords(repo_root, dry_run)     *)
(*               called on a wrappers directory, possibly a second time.   *)
(* A string is a sequence of one-character strings, so that               *)
(* str.startswith is computed and not assumed.                             *)
(***************************************************************************)
EXTENDS Integers, Sequences, FiniteSets, TLC

(* ---------------------------- bounds ----------------------------------- *)
\* manifests under dynamic-plugins/wrappers in a batch call
MaxFiles == 2
\* entries of one manifest's keywords list in a batch call or a run
MaxKw == 2
\* entries of the keywords list when the directory holds three manifests
MaxKwThree == 1
\* entries of the keywords list when the directory holds one manifest
MaxKwOne == 3
\* manifests under dynamic-plugins/wrappers in a command-line run
MaxMainFiles == 1
\* verdicts in PackageYamlChecker.results
MaxResults == 2

(* ---------------------------- strings ---------------------------------- *)
SupportPrefix == <<"s","u","p","p","o","r","t",":">>

LifecyclePrefix == <<"l","i","f","e","c","y","c","l","e",":">>

\* str.startswith(prefix)
StartsWith(s, p) == Len(s) >= Len(p) /\ SubSeq(s, 1, Len(p)) = p

\* JSON values that occur as entries of a keywords list: strings and one
\* number (isstr = FALSE), the latter spelled by its digits.
Str(t) == [isstr |-> TRUE, text |-> t]

KwSupport == Str(SupportPrefix \o <<"t","p">>)

KwLifecycle == Str(LifecyclePrefix \o <<"o","l","d">>)

KwCategory == Str(<<"c","a","t",":","a","i">>)

KwSupported == Str(<<"s","u","p","p","o","r","t","e","d">>)

KwNumber == [isstr |-> FALSE, text |-> <<"7">>]

\* keywords of the manifest when the directory holds one manifest
KeywordValues == {KwSupport, KwLifecycle, KwCategory, KwSupported, KwNumber}

\* keywords of the manifests of a directory that holds several: a reserved
\* one, one that is not, and one that only resembles a reserved one
BatchKeywordValues == {KwSupport, KwCategory, KwSupported}

SeqUpTo(S, n) == UNION {[1..k -> S] : k \in 0..n}

(* --------------------------- manifests --------------------------------- *)
\* A manifest file: what json.load makes of it and how its text is laid out.
\*   kind   "noparse"   json.load raises
\*          "nonobject" valid JSON whose top level is not an object
\*          "object"    a JSON object
\*   kw     "absent"    no keywords member
\*          "null"      keywords is null (stands for any non-iterable value)
\*          "list"      keywords is the list items
\*   name   the other members of the object
\*   layout "asfound" or "indent2" (what save_json writes)
Manifest(kind, kw, items, layout) ==
    [kind |-> kind, kw |-> kw, items |-> items, name |-> "plugin", layout |-> layout]

Manifests(values, maxKw) ==
    {Manifest("noparse", "absent", <<>>, "asfound"),
     Manifest("nonobject", "absent", <<>>, "asfound"),
     Manifest("object", "absent", <<>>, "asfound"),
     Manifest("object", "null", <<>>, "asfound")}
    \cup {Manifest("object", "list", ks, "asfound") : ks \in SeqUpTo(values, maxKw)}

(* ------------------ remove_support_lifecycle_keywords ------------------ *)
\* variants of the test of line 100: the lifecycle prefix forgotten, and
\* the support prefix compared without its colon
IsReservedSupportOnly(kw) == kw.isstr /\ StartsWith(kw.text, SupportPrefix)

IsReservedNoColon(kw) ==
    kw.isstr /\ (StartsWith(kw.text, SubSeq(SupportPrefix, 1, Len(SupportPrefix) - 1))
                 \/ StartsWith(kw.text, LifecyclePrefix))

\* line 100: the test that sends a keyword to `removed`
IsReserved(kw) ==
    kw.isstr /\ (StartsWith(kw.text, SupportPrefix) \/ StartsWith(kw.text, LifecyclePrefix))

\* lines 97-103: the partition loop, one keyword at a time, in order
RECURSIVE Partition(_, _, _)
Partition(keywords, kept, removed) ==
    IF keywords = <<>> THEN [kept |-> kept, removed |-> removed]
    ELSE IF IsReserved(Head(keywords))
         THEN Partition(Tail(keywords), kept, Append(removed, Head(keywords)))
         ELSE Partition(Tail(keywords), Append(kept, Head(keywords)), removed)

\* line 93: list(data.get("keywords", [])) for an object whose keywords
\* member is absent or a list
Keywords(data) == IF data.kw = "list" THEN data.items ELSE <<>>

\* lines 36-38: load_json raises when the text is not JSON
LoadRaises(file) == file.kind = "noparse"

\* line 93 outside the try block: data.get on a non-object raises
\* AttributeError, list(None) raises TypeError; neither is caught
DataRaises(data) == data.kind = "nonobject" \/ data.kw = "null"

\* line 105: `if not removed: continue`
NothingRemoved(removed) == removed = <<>>

\* variant of line 115: the mode is not consulted
WritesFileAlways(dryRun) == dryRun \/ ~dryRun

\* line 115: `if not dry_run:`
WritesFile(dryRun) == ~dryRun

\* variant of lines 116-119: the kept list is not stored
PatchKeepsAll(data, kept) == data

\* lines 116-119: the keywords member after the edit
Patch(data, kept) ==
    IF kept # <<>>
    THEN [data EXCEPT !.kw = "list", !.items = kept]
    ELSE [data EXCEPT !.kw = "absent", !.items = <<>>]

\* lines 41-44: json.dump(indent=2) followed by a newline
save_json(data) == [data EXCEPT !.layout = "indent2"]

(* ------------------------- run_preflight_check ------------------------- *)
Statuses == {"CONSISTENT", "MISMATCH", "NO_YAML"}

\* variant of line 64: NO_YAML is not counted
ProblemsMismatchOnly(rs) == SelectSeq(rs, LAMBDA r : r = "MISMATCH")

\* line 64: the verdicts that block the run
Problems(rs) == SelectSeq(rs, LAMBDA r : r \in {"MISMATCH", "NO_YAML"})

\* variant of lines 55-59: an import failure is not counted
run_preflight_check_unguarded(canImport, rs) ==
    IF ~canImport THEN 0 ELSE Len(SelectSeq(rs, LAMBDA r : r \in {"MISMATCH", "NO_YAML"}))

\* lines 55-59 and 80: 1 when the checker cannot be imported, else the
\* number of blocking verdicts
run_preflight_check(canImport, rs) == IF ~canImport THEN 1 ELSE Len(Problems(rs))

(* ------------------------------- main ---------------------------------- *)
\* line 129: the only option the parser declares
DeclaredOptions == {"--dry-run"}

\* line 130: the Namespace parse_args builds, as (attribute, value) pairs
Namespace(cmdline) == {<<"dry_run", cmdline = "--dry-run">>}

HasAttr(ns, a) == \E p \in ns : p[1] = a

\* line 133: `if problems:`
GateBlocks(n) == n # 0

(* ------------------------------ state ---------------------------------- *)
VARIABLES
    pc,         \* position of the run
    argv,       \* the command line: "" or one option
    args,       \* the parsed Namespace
    importable, \* whether check_package_yaml_consistency can be imported
    results,    \* PackageYamlChecker.results, one status per package
    problems,   \* what run_preflight_check returned
    exit_code,  \* process exit status, -1 while running
    files,      \* manifests in discovery order, current content
    before,     \* content of the manifests when the current call started
    dry_run,    \* parameter of remove_support_lifecycle_keywords
    idx,        \* position of the for loop (line 86)
    modified,   \* the counter of line 85
    result,     \* value returned by the call, -1 if none
    opened_r,   \* manifests opened for reading in the current call
    opened_w,   \* manifests opened for writing in the current call
    reported,   \* manifests a per-file report was printed for
    run         \* 1 for the first call on these files, 2 for the second

vars == <<pc, argv, args, importable, results, problems, exit_code, files,
          before, dry_run, idx, modified, result, opened_r, opened_w,
          reported, run>>

mainVars == <<argv, args, importable, results, problems, exit_code>>

(* ----------- remove_support_lifecycle_keywords, step by step ----------- *)
InLoop == pc = "SCANNING" /\ idx <= Len(files)

\* lines 87-91: the manifest does not parse; it is skipped
SkipUnparseable ==
    /\ InLoop
    /\ LoadRaises(files[idx])
    /\ opened_r' = opened_r \cup {idx}
    /\ idx' = idx + 1
    /\ UNCHANGED <<pc, files, before, dry_run, modified, result, opened_w, reported, run>>
    /\ UNCHANGED mainVars

\* line 93: the exception leaves the function
RaiseOnData ==
    /\ InLoop
    /\ ~LoadRaises(files[idx])
    /\ DataRaises(files[idx])
    /\ opened_r' = opened_r \cup {idx}
    /\ pc' = "RAISED"
    /\ UNCHANGED <<idx, files, before, dry_run, modified, result, opened_w, reported, run>>
    /\ UNCHANGED mainVars

Loaded == InLoop /\ ~LoadRaises(files[idx]) /\ ~DataRaises(files[idx])

\* lines 94-95: no keywords
SkipNoKeywords ==
    /\ Loaded
    /\ Keywords(files[idx]) = <<>>
    /\ opened_r' = opened_r \cup {idx}
    /\ idx' = idx + 1
    /\ UNCHANGED <<pc, files, before, dry_run, modified, result, opened_w, reported, run>>
    /\ UNCHANGED mainVars

\* lines 97-106: keywords, none of them reserved
SkipNothingRemoved ==
    /\ Loaded
    /\ Keywords(files[idx]) # <<>>
    /\ NothingRemoved(Partition(Keywords(files[idx]), <<>>, <<>>).removed)
    /\ opened_r' = opened_r \cup {idx}
    /\ idx' = idx + 1
    /\ UNCHANGED <<pc, files, before, dry_run, modified, result, opened_w, reported, run>>
    /\ UNCHANGED mainVars

\* lines 108-115 with dry_run: report, no write, no count
ReportOnly ==
    /\ Loaded
    /\ Keywords(files[idx]) # <<>>
    /\ ~NothingRemoved(Partition(Keywords(files[idx]), <<>>, <<>>).removed)
    /\ ~WritesFile(dry_run)
    /\ opened_r' = opened_r \cup {idx}
    /\ reported' = reported \cup {idx}
    /\ idx' = idx + 1
    /\ UNCHANGED <<pc, files, before, dry_run, modified, result, opened_w, run>>
    /\ UNCHANGED mainVars

\* lines 108-121 without dry_run: report, patch, save, count
Rewrite ==
    /\ Loaded
    /\ Keywords(files[idx]) # <<>>
    /\ ~NothingRemoved(Partition(Keywords(files[idx]), <<>>, <<>>).removed)
    /\ WritesFile(dry_run)
    /\ opened_r' = opened_r \cup {idx}
    /\ reported' = reported \cup {idx}
    /\ files' = [files EXCEPT ![idx] =
                    save_json(Patch(@, Partition(Keywords(@), <<>>, <<>>).kept))]
    /\ opened_w' = opened_w \cup {idx}
    /\ modified' = modified + 1
    /\ idx' = idx + 1
    /\ UNCHANGED <<pc, before, dry_run, result, run>>
    /\ UNCHANGED mainVars

\* line 123
Return ==
    /\ pc = "SCANNING"
    /\ idx > Len(files)
    /\ pc' = "RETURNED"
    /\ result' = modified
    /\ UNCHANGED <<idx, files, before, dry_run, modified, opened_r, opened_w, reported, run>>
    /\ UNCHANGED mainVars

\* the function is called a second time, same arguments, on the files the
\* first call left behind
CallAgain ==
    /\ pc \in {"RETURNED", "RAISED"}
    /\ run = 1
    /\ run' = 2
    /\ pc' = "SCANNING"
    /\ before' = files
    /\ idx' = 1
    /\ modified' = 0
    /\ result' = -1
    /\ opened_r' = {}
    /\ opened_w' = {}
    /\ reported' = {}
    /\ UNCHANGED <<files, dry_run>>
    /\ UNCHANGED mainVars

\* the state when the function is entered, for a directory `dir`
Entered(dir) ==
    /\ pc = "SCANNING"
    /\ files \in dir
    /\ before = files
    /\ dry_run \in BOOLEAN
    /\ idx = 1
    /\ modified = 0
    /\ result = -1
    /\ opened_r = {}
    /\ opened_w = {}
    /\ reported = {}
    /\ run = 1
    /\ argv = ""
    /\ args = {}
    /\ importable = TRUE
    /\ results = <<>>
    /\ problems = 0
    /\ exit_code = -1

Init == Entered(SeqUpTo(Manifests(BatchKeywordValues, MaxKw), MaxFiles))

InitOne == Entered([1..1 -> Manifests(KeywordValues, MaxKwOne)])

InitThree == Entered([1..3 -> Manifests(BatchKeywordValues, MaxKwThree)])

Next ==
    \/ SkipUnparseable
    \/ RaiseOnData
    \/ SkipNoKeywords
    \/ SkipNothingRemoved
    \/ ReportOnly
    \/ Rewrite
    \/ Return
    \/ CallAgain

Spec == Init /\ [][Next]_vars

SpecOne == InitOne /\ [][Next]_vars

SpecThree == InitThree /\ [][Next]_vars

(* --------------------------- main, step by step ------------------------ *)
batchVars == <<files, before, dry_run, idx, modified, result, opened_r, opened_w, reported, run>>

\* line 130: an option the parser does not declare ends the process with
\* status 2 (argparse's error exit)
ParseArgsError ==
    /\ pc = "START"
    /\ argv # "" /\ argv \notin DeclaredOptions
    /\ pc' = "EXITED"
    /\ exit_code' = 2
    /\ UNCHANGED <<argv, args, importable, results, problems>>
    /\ UNCHANGED batchVars

\* line 130
ParseArgs ==
    /\ pc = "START"
    /\ argv = "" \/ argv \in DeclaredOptions
    /\ args' = Namespace(argv)
    /\ pc' = "PREFLIGHT"
    /\ UNCHANGED <<argv, importable, results, problems, exit_code>>
    /\ UNCHANGED batchVars

\* line 132
Preflight ==
    /\ pc = "PREFLIGHT"
    /\ problems' = run_preflight_check(importable, results)
    /\ pc' = "CHECKED"
    /\ UNCHANGED <<argv, args, importable, results, exit_code>>
    /\ UNCHANGED batchVars

\* lines 133-134
Abort ==
    /\ pc = "CHECKED"
    /\ GateBlocks(problems)
    /\ pc' = "ABORTED"
    /\ exit_code' = 1
    /\ UNCHANGED <<argv, args, importable, results, problems>>
    /\ UNCHANGED batchVars

\* line 136: the argument `not args.yes` is evaluated before the call; the
\* Namespace has no attribute yes, so AttributeError ends the process with
\* status 1 and remove_support_lifecycle_keywords is not entered
CallRemove ==
    /\ pc = "CHECKED"
    /\ ~GateBlocks(problems)
    /\ IF HasAttr(args, "yes")
       THEN /\ pc' = "SCANNING"
            /\ dry_run' = ~(<<"yes", TRUE>> \in args)
            /\ UNCHANGED exit_code
       ELSE /\ pc' = "CRASHED"
            /\ exit_code' = 1
            /\ UNCHANGED dry_run
    /\ UNCHANGED <<argv, args, importable, results, problems>>
    /\ UNCHANGED <<files, before, idx, modified, result, opened_r, opened_w, reported, run>>

InitMain ==
    /\ pc = "START"
    /\ argv \in {"", "--dry-run", "--yes"}
    /\ args = {}
    /\ importable \in BOOLEAN
    /\ results \in SeqUpTo(Statuses, MaxResults)
    /\ problems = 0
    /\ exit_code = -1
    /\ files \in SeqUpTo(Manifests(BatchKeywordValues, MaxKw), MaxMainFiles)
    /\ before = files
    /\ dry_run = TRUE
    /\ idx = 1
    /\ modified = 0
    /\ result = -1
    /\ opened_r = {}
    /\ opened_w = {}
    /\ reported = {}
    /\ run = 1

NextMain ==
    \/ ParseArgsError
    \/ ParseArgs
    \/ Preflight
    \/ Abort
    \/ CallRemove

SpecMain == InitMain /\ [][NextMain]_vars

TypeOK ==
    /\ pc \in {"START", "PREFLIGHT", "CHECKED", "ABORTED", "CRASHED", "EXITED",
               "SCANNING", "RETURNED", "RAISED"}
    /\ idx \in 1..(Len(files) + 1)
    /\ modified \in 0..Len(files)
    /\ Len(files) = Len(before)

(* ---------------------------- properties ------------------------------- *)
\* What the specification calls a reserved-prefix keyword, stated without
\* the code's test: a string that is a reserved prefix followed by anything.
HasReservedPrefix(kw) ==
    /\ kw.isstr
    /\ \E p \in {SupportPrefix, LifecyclePrefix} :
           \E n \in 0..Len(kw.text) : SubSeq(kw.text, 1, n) = p

\* a parseable manifest with at least one reserved-prefix keyword
Qualifies(m) ==
    /\ m.kind = "object"
    /\ m.kw = "list"
    /\ \E k \in 1..Len(m.items) : HasReservedPrefix(m.items[k])

\* the original list with exactly the reserved-prefix entries removed
Expected(items) == SelectSeq(items, LAMBDA k : ~HasReservedPrefix(k))

Indices == 1..Len(files)

Terminated == pc \in {"ABORTED", "CRASHED", "EXITED", "DONE"}

GateRan == pc \notin {"START", "PREFLIGHT", "EXITED"}

GateReportsProblem ==
    importable /\ \E k \in 1..Len(results) : results[k] \in {"MISMATCH", "NO_YAML"}

\* C1: when the preflight gate reports a MISMATCH or NO_YAML package, the
\* run goes from the gate to the abort and nowhere else, no manifest is
\* opened for reading or writing, and the exit status is not zero.
C1_GateProblemAborts ==
    (GateRan /\ GateReportsProblem) =>
        /\ pc \in {"CHECKED", "ABORTED"}
        /\ opened_w = {} /\ opened_r = {} /\ files = before
        /\ problems > 0
        /\ Terminated => exit_code > 0

C1_Witness ==
    /\ pc = "ABORTED"
    /\ exit_code = 1
    /\ importable
    /\ results = <<"CONSISTENT", "NO_YAML">>

\* C2: a run whose gate found zero problems ends in DONE with exit status 0,
\* whatever the command line was, and in no other way.
C2_CleanRunExitsZero ==
    (Terminated /\ GateRan /\ problems = 0) => (pc = "DONE" /\ exit_code = 0)

\* C3: in mutate mode, a processed manifest that had a reserved-prefix
\* keyword has been rewritten; its keywords are the original list without
\* the reserved-prefix entries, the others in their order with duplicates,
\* the member is absent when nothing is left, and the other members are
\* as they were.
C3_RewriteRemovesReserved ==
    \A i \in Indices :
        (~dry_run /\ i < idx /\ Qualifies(before[i])) =>
            /\ i \in opened_w
            /\ files[i].kind = "object"
            /\ files[i].name = before[i].name
            /\ IF Expected(before[i].items) = <<>>
               THEN files[i].kw = "absent" /\ files[i].items = <<>>
               ELSE files[i].kw = "list" /\ files[i].items = Expected(before[i].items)

C3_Witness ==
    /\ ~dry_run
    /\ pc = "RETURNED"
    /\ run = 1
    /\ before[1].items = <<KwCategory, KwLifecycle, KwNumber>>
    /\ files[1].items = <<KwCategory, KwNumber>>
    /\ 1 \in opened_w

\* C4: in preview mode no manifest is opened for writing and every
\* manifest has the content it had when the call started.
C4_PreviewWritesNothing ==
    dry_run => (opened_w = {} /\ files = before /\ modified = 0)

C4_Witness ==
    /\ dry_run
    /\ pc = "RETURNED"
    /\ Cardinality(reported) >= 2
    /\ files = before

\* C5: the call returns the number of parseable manifests that have a
\* reserved-prefix keyword, in preview mode as in mutate mode.
C5_ReturnsQualifyingCount ==
    pc = "RETURNED" =>
        result = Cardinality({i \in Indices : Qualifies(before[i])})

\* C6: when a call ends, either every manifest with a reserved-prefix
\* keyword has been rewritten or no manifest has.
C6_AllOrNothing ==
    pc \in {"RETURNED", "RAISED"} =>
        \/ \A i \in Indices : Qualifies(before[i]) => i \in opened_w
        \/ opened_w = {}

\* C7: a manifest that does not parse as a JSON object is left as it is and
\* the loop goes on to the next manifest: the call never ends at it.
C7_ParseFailureIsLocal ==
    \A i \in Indices :
        before[i].kind # "object" =>
            /\ files[i] = before[i]
            /\ i \notin opened_w
            /\ ~(pc = "RAISED" /\ idx = i)

\* C8: a second call in mutate mode reports no removal, opens no manifest
\* for writing, leaves every manifest as the first call left it, counts
\* nothing and, when it returns, returns 0.
C8_SecondRunIsNoOp ==
    (run = 2 /\ ~dry_run) =>
        /\ reported = {}
        /\ opened_w = {}
        /\ files = before
        /\ modified = 0
        /\ pc = "RETURNED" => result = 0

C8_Witness ==
    /\ run = 2
    /\ ~dry_run
    /\ pc = "RETURNED"
    /\ result = 0
    /\ \E i, j \in Indices :
           /\ i # j
           /\ files[i].layout = "indent2" /\ files[i].kw = "list"
           /\ files[j].layout = "indent2" /\ files[j].kw = "absent"

\* a manifest with no keywords member, an empty list, or a list without
\* reserved-prefix entries
NothingToRemove(m) ==
    /\ m.kind = "object"
    /\ m.kw \in {"absent", "list"}
    /\ \A k \in 1..Len(m.items) : ~HasReservedPrefix(m.items[k])

\* C9: a manifest with nothing to remove is left unchanged, gets no
\* per-file report and is not counted: the counter never exceeds the number
\* of processed manifests that had a reserved-prefix keyword.
C9_NothingToRemoveUntouched ==
    /\ \A i \in Indices :
           NothingToRemove(before[i]) =>
               /\ files[i] = before[i]
               /\ i \notin reported
               /\ i \notin opened_w
    /\ modified <= Cardinality({i \in Indices : i < idx /\ Qualifies(before[i])})

C9_Witness ==
    /\ ~dry_run
    /\ pc = "RETURNED"
    /\ run = 1
    /\ result = 1
    /\ \E j, k \in Indices :
           /\ before[j].kw = "list" /\ before[j].items = <<KwCategory, KwSupported>>
           /\ files[j] = before[j]
           /\ k \in opened_w

\* C10: when the checker cannot be imported the gate returns at least one
\* problem, the run goes to the abort and nowhere else, no manifest is
\* opened, and the exit status is not zero.
C10_UnloadableCheckerAborts ==
    (GateRan /\ ~importable) =>
        /\ problems >= 1
        /\ pc \in {"CHECKED", "ABORTED"}
        /\ opened_w = {} /\ opened_r = {} /\ files = before
        /\ Terminated => exit_code > 0

C10_Witness ==
    /\ ~importable
    /\ pc = "ABORTED"
    /\ exit_code = 1
    /\ problems = 1
    /\ Len(files) > 0
====
